---- MODULE Spec2Model ----
(***************************************************************************)
(* Model of my_c_module.c: the native kernel c_factorial and the CPython   *)
(* wrapper py_factorial that parses one "i" argument, calls the kernel and *)
(* converts the C long back into a Python int.                             *)
(*                                                                         *)
(* Wide integers (the C long accumulator, Python ints, exact factorials)   *)
(* are little-endian sequences of bytes, because the values exceed the     *)
(* range of the checker's own integers.  A C long is LongBytes bytes in    *)
(* two's complement; a Python int is a sign and a magnitude.               *)
(***************************************************************************)
EXTENDS Integers, Sequences

\* ------------------------------------------------------------------------
\* Native types
\* ------------------------------------------------------------------------

\* int is 32 bits on every platform CPython supports.
INT_MAX == 2147483647
INT_MIN == (0 - INT_MAX) - 1
IntBytes == 4

\* Radix of the byte representation.
Base == 256

\* sizeof(long): 4 on ILP32 and LLP64 (Windows), 8 on LP64 (Linux, macOS).
LongSizes == {4, 8}

\* Signed overflow is undefined in C.  What a build does with it:
\*   "wraps"   two's complement wraparound (-fwrapv, or unoptimised code)
\*   "traps"   the process is aborted (-ftrapv, -fsanitize=...)
\*   "assumed" the optimiser assumes it cannot happen: arithmetic wraps in
\*             the hardware, and the loop runs the trip count derived from
\*             i <= n, leaving when the counter passes INT_MAX
OverflowBuilds == {"wraps", "traps", "assumed"}

\* ------------------------------------------------------------------------
\* Bounds of the model
\* ------------------------------------------------------------------------

\* Arguments 0..MaxN are all tried (beside the special values below).
MaxN == 22

\* ------------------------------------------------------------------------
\* State
\* ------------------------------------------------------------------------

VARIABLES
    longBytes,     \* sizeof(long) of the build
    overflowBuild, \* what the build does on signed overflow
    pc,            \* position of the one thread of control
    args,          \* the argument tuple of the call
    n,             \* int n (py_factorial's local, passed to c_factorial)
    i,             \* int i (c_factorial)
    result,        \* long result (c_factorial)
    py_result,     \* long result (py_factorial)
    err,           \* the interpreter's error indicator
    retval,        \* what the last call returned to the interpreter
    kernelCalls,   \* history: entries into c_factorial during this call
    parses,        \* history: parse steps during this call
    mults,         \* history: multiplications during this kernel call
    wrapped,       \* history: a multiplication overflowed during this call
    memo           \* history: one remembered (args, outcome) observation

vars == <<longBytes, overflowBuild, pc, args, n, i, result, py_result, err,
          retval, kernelCalls, parses, mults, wrapped, memo>>

build == <<longBytes, overflowBuild>>
locals == <<n, i, result, py_result>>
history == <<kernelCalls, parses, mults, wrapped>>

\* ------------------------------------------------------------------------
\* Byte-sequence arithmetic
\* ------------------------------------------------------------------------

\* In the arithmetic below, CHOOSE y \in {e(x) : x \in {v}} : TRUE is e(v)
\* with v evaluated once.

RECURSIVE Fill(_, _)
Fill(b, cnt) == IF cnt = 0 THEN <<>> ELSE <<b>> \o Fill(b, cnt - 1)

\* The nb >= 4 low bytes of integer k in two's complement (sign-extending).
Bytes(k, nb) ==
    <<k % Base, (k \div Base) % Base, (k \div 65536) % Base,
      (k \div 16777216) % Base>>
        \o Fill(IF k < 0 THEN 255 ELSE 0, nb - 4)

IsNegBytes(a) == a[Len(a)] >= 128

\* Sign-extend the two's complement value a to nb bytes.
SignExtend(a, nb) ==
    a \o Fill(IF IsNegBytes(a) THEN 255 ELSE 0, nb - Len(a))

RECURSIVE ColumnSum(_, _, _, _)
\* Sum of a[p] * b[k + 1 - p] for p in 1..p.
ColumnSum(a, b, k, p) ==
    IF p = 0 THEN 0
    ELSE a[p] * b[k + 1 - p] + ColumnSum(a, b, k, p - 1)

RECURSIVE MulFrom(_, _, _, _)
\* Bytes k.. of the product of a and b, both Len(a) bytes, modulo
\* Base^Len(a).
MulFrom(a, b, k, carry) ==
    IF k > Len(a) THEN <<>>
    ELSE CHOOSE y \in {<<s % Base>> \o MulFrom(a, b, k + 1, s \div Base) :
                          s \in {ColumnSum(a, b, k, k) + carry}} : TRUE

\* a * b modulo Base^Len(a); a and b have the same length.
MulBytes(a, b) ==
    CHOOSE y \in {MulFrom(x[1], x[2], 1, 0) : x \in {<<a, b>>}} : TRUE

RECURSIVE Normalize(_)
\* Drop the high zero bytes of a magnitude.
Normalize(m) ==
    IF m = <<>> THEN <<>>
    ELSE IF m[Len(m)] = 0 THEN Normalize(SubSeq(m, 1, Len(m) - 1))
    ELSE m

RECURSIVE NegFrom(_, _, _)
\* Two's complement negation: invert every byte and add one.
NegFrom(a, k, carry) ==
    IF k > Len(a) THEN <<>>
    ELSE LET s == (255 - a[k]) + carry
         IN  <<s % Base>> \o NegFrom(a, k + 1, s \div Base)

NegBytes(a) == NegFrom(a, 1, 1)

RECURSIVE MagMulSmall(_, _, _)
\* Magnitude m times the small natural k, plus carry; exact, of any length.
MagMulSmall(m, k, carry) ==
    IF m = <<>>
        THEN IF carry = 0 THEN <<>>
             ELSE <<carry % Base>> \o MagMulSmall(<<>>, k, carry \div Base)
    ELSE LET s == m[1] * k + carry
         IN  <<s % Base>> \o MagMulSmall(Tail(m), k, s \div Base)

RECURSIVE Pow2(_)
\* 2^e as an integer, for small e.
Pow2(e) == IF e = 0 THEN 1 ELSE 2 * Pow2(e - 1)

\* The magnitude 2^e.
Pow2Mag(e) == Fill(0, e \div 8) \o <<Pow2(e % 8)>>

RECURSIVE MagLess(_, _)
\* m1 < m2 for normalized magnitudes.
MagLess(m1, m2) ==
    IF Len(m1) # Len(m2) THEN Len(m1) < Len(m2)
    ELSE IF m1 = <<>> THEN FALSE
    ELSE IF m1[Len(m1)] # m2[Len(m2)] THEN m1[Len(m1)] < m2[Len(m2)]
    ELSE MagLess(SubSeq(m1, 1, Len(m1) - 1), SubSeq(m2, 1, Len(m2) - 1))

\* ------------------------------------------------------------------------
\* Host (CPython) values
\* ------------------------------------------------------------------------

\* A Python int: arbitrary precision, a sign and a normalized magnitude.
PyInt(neg, mag) == [type |-> "int", neg |-> neg, mag |-> mag]
PyStr == [type |-> "str", neg |-> FALSE, mag |-> <<>>]
PyFloat == [type |-> "float", neg |-> FALSE, mag |-> <<>>]
\* The failure sentinel, and the absence of a returned value.
NULL == [type |-> "NULL", neg |-> FALSE, mag |-> <<>>]
NoValue == [type |-> "none", neg |-> FALSE, mag |-> <<>>]

\* The Python int whose value is the integer k, INT_MIN <= k <= INT_MAX.
PyIntOfInt(k) ==
    IF k < 0 THEN PyInt(TRUE, Normalize(NegBytes(Bytes(k, IntBytes + 1))))
    ELSE PyInt(FALSE, Normalize(Bytes(k, IntBytes + 1)))

\* PyLong_FromLong: a C long (two's complement bytes) as a Python int.
PyLong_FromLong(v) ==
    IF IsNegBytes(v) THEN PyInt(TRUE, Normalize(NegBytes(v)))
    ELSE PyInt(FALSE, Normalize(v))

\* Whether Python int o is representable in nb bytes, two's complement.
FitsSigned(o, nb) ==
    \/ MagLess(o.mag, Pow2Mag(8 * nb - 1))
    \/ o.neg /\ o.mag = Pow2Mag(8 * nb - 1)

\* PyLong_AsLong: the C long of Python int o, which fits.
PyLong_AsLong(o, nb) ==
    LET padded == o.mag \o Fill(0, nb - Len(o.mag))
    IN  IF o.neg THEN NegBytes(padded) ELSE padded

\* The value of a C long that lies within the range of int.
IntOfLong(v) ==
    (IF v[4] >= 128 THEN v[4] - Base ELSE v[4]) * 16777216
        + (v[3] * 65536 + v[2] * Base + v[1])

\* Mutant: the value is stored in n without the range check.
NoRangeCheck(v) == FALSE

\* ival > INT_MAX || ival < INT_MIN, for a C long ival.
OutsideInt(v) == SignExtend(SubSeq(v, 1, IntBytes), Len(v)) # v

ParseOk(k) == [ok |-> TRUE, n |-> k, err |-> "none"]
ParseErr(e) == [ok |-> FALSE, n |-> 0, err |-> e]

\* The tuple holds exactly the one argument the format "i" names.
ArityOk(a) == Len(a) = 1

\* The argument is a Python int (a str or a float is not converted).
IsPyLong(o) == o.type = "int"

\* PyArg_ParseTuple(args, "i", &n), with sizeof(long) = nb: exactly one
\* argument, a Python int, within the range of long (PyLong_AsLong) and
\* then of int.  It fails with the error it has set, or succeeds with the
\* value it has stored in n.
PyArg_ParseTuple(a, nb) ==
    IF ~ArityOk(a) THEN ParseErr("TypeError")
    ELSE IF ~IsPyLong(a[1]) THEN ParseErr("TypeError")
    ELSE IF ~FitsSigned(a[1], nb) THEN ParseErr("OverflowError")
    ELSE IF OutsideInt(PyLong_AsLong(a[1], nb)) THEN ParseErr("OverflowError")
    ELSE ParseOk(IntOfLong(PyLong_AsLong(a[1], nb)))

\* ------------------------------------------------------------------------
\* The kernel's arithmetic
\* ------------------------------------------------------------------------

\* long result = 1
ResultInit(nb) == Bytes(1, nb)

\* Mutant: int i = 1.
LoopStartOne == 2 - 1

\* int i = 2
LoopStart == 2

\* Mutant: i < n.
LoopCondStrict(iv, nv) == iv < nv

\* i <= n
LoopCond(iv, nv) == iv <= nv

\* result *= i: i is converted to long and the product taken in long.  The
\* exact product is computed in IntBytes more bytes; it overflows when it is
\* not the sign-extension of its low nb bytes.
Multiply(r, iv) ==
    LET wide == Len(r) + IntBytes
    IN  CHOOSE y \in
            {[value |-> SubSeq(exact, 1, Len(r)),
              overflow |->
                  SignExtend(SubSeq(exact, 1, Len(r)), wide) # exact] :
             exact \in {MulBytes(SignExtend(r, wide), Bytes(iv, wide))}} :
            TRUE

\* No observation has been remembered.
NoMemo ==
    [set |-> FALSE, args |-> <<>>, retval |-> NoValue, err |-> "none",
     otherBetween |-> FALSE, failedBetween |-> FALSE]

\* ------------------------------------------------------------------------
\* Inputs
\* ------------------------------------------------------------------------

\* 2^32 + 5: within long on LP64, never within int; its low 32 bits are 5.
TwoTo32Plus5 == PyInt(FALSE, <<5, 0, 0, 0, 1>>)
\* 2^64 + 5: outside long everywhere.
TwoTo64Plus5 == PyInt(FALSE, <<5, 0, 0, 0, 0, 0, 0, 0, 1>>)
\* INT_MAX + 1 and INT_MIN - 1.
IntMaxPlus1 == PyInt(FALSE, <<0, 0, 0, 128>>)
IntMinMinus1 == PyInt(TRUE, <<1, 0, 0, 128>>)

\* An argument beyond the point where the accumulator has become 0.
PastZero == 70

SmallInts == 0 .. MaxN
SpecialInts == {INT_MIN, -1, PastZero, INT_MAX}
IntArgs == {<<PyIntOfInt(k)>> : k \in SmallInts \cup SpecialInts}
OutOfRangeArgs ==
    {<<TwoTo32Plus5>>, <<TwoTo64Plus5>>, <<IntMaxPlus1>>, <<IntMinMinus1>>}
WrongTypeArgs == {<<PyStr>>, <<PyFloat>>}
WrongArityArgs ==
    {<<>>, <<PyIntOfInt(3), PyIntOfInt(4)>>, <<PyStr, PyIntOfInt(5)>>,
     <<PyIntOfInt(2), PyIntOfInt(2), PyIntOfInt(2)>>}
AllArgs == IntArgs \cup OutOfRangeArgs \cup WrongTypeArgs \cup WrongArityArgs

\* ------------------------------------------------------------------------
\* Initial state: the module is loaded, nothing has been called
\* ------------------------------------------------------------------------

Init ==
    /\ longBytes \in LongSizes
    /\ overflowBuild \in OverflowBuilds
    /\ pc = "idle"
    /\ args = <<>>
    /\ n = 0
    /\ i = 0
    /\ result = Bytes(0, longBytes)
    /\ py_result = Bytes(0, longBytes)
    /\ err = "none"
    /\ retval = NoValue
    /\ kernelCalls = 0
    /\ parses = 0
    /\ mults = 0
    /\ wrapped = FALSE
    /\ memo = NoMemo

\* ------------------------------------------------------------------------
\* Actions
\* ------------------------------------------------------------------------

Zero == Bytes(0, longBytes)

\* Saturating addition for the multiplication counter.
AddSat(a, d) == IF a > INT_MAX - d THEN INT_MAX ELSE a + d

\* The interpreter calls factorial(*a): py_factorial is entered with no
\* error pending.  n, declared without an initialiser (line 14), holds
\* what the last call left there; the other locals do not exist yet.
\* (History: once an observation is remembered, what the call that has just
\* returned was is noted with it.)
HostCall(a) ==
    /\ pc = "idle"
    /\ pc' = "parse"
    /\ args' = a
    /\ err' = "none"
    /\ retval' = NoValue
    /\ kernelCalls' = 0
    /\ parses' = 0
    /\ mults' = 0
    /\ wrapped' = FALSE
    /\ memo' = IF memo.set
               THEN [memo EXCEPT
                        !.otherBetween = @ \/ args # memo.args,
                        !.failedBetween = @ \/ retval = NULL]
               ELSE memo
    /\ UNCHANGED <<build, locals>>

\* Mutant: the return of line 18 is missing, and a failed parse goes on to
\* line 20 with n as it was.
ParseNoReturn ==
    /\ pc = "parse"
    /\ LET r == PyArg_ParseTuple(args, longBytes)
       IN  IF r.ok
           THEN n' = r.n /\ UNCHANGED err
           ELSE err' = r.err /\ UNCHANGED n
    /\ pc' = "call"
    /\ parses' = parses + 1
    /\ UNCHANGED <<build, args, i, result, py_result, retval, kernelCalls,
                   mults, wrapped, memo>>

\* Line 17: PyArg_ParseTuple(args, "i", &n).  On failure it has set the
\* error indicator and n is not written.
Parse ==
    /\ pc = "parse"
    /\ LET r == PyArg_ParseTuple(args, longBytes)
       IN  IF r.ok
           THEN /\ n' = r.n
                /\ pc' = "call"
                /\ UNCHANGED err
           ELSE /\ err' = r.err
                /\ pc' = "fail"
                /\ UNCHANGED n
    /\ parses' = parses + 1
    /\ UNCHANGED <<build, args, i, result, py_result, retval, kernelCalls,
                   mults, wrapped, memo>>

\* Mutant: Py_RETURN_NONE in place of return NULL.
ReturnNone ==
    /\ pc = "fail"
    /\ retval' = [type |-> "None", neg |-> FALSE, mag |-> <<>>]
    /\ pc' = "idle"
    /\ UNCHANGED <<build, args, locals, err, history, memo>>

\* Line 18: return NULL.
ReturnNull ==
    /\ pc = "fail"
    /\ retval' = NULL
    /\ pc' = "idle"
    /\ UNCHANGED <<build, args, locals, err, history, memo>>

\* Line 20, the call, and lines 5 and 6, the initialisations:
\* c_factorial(n) is entered, result = 1, i = 2.
KernelEnter ==
    /\ pc = "call"
    /\ result' = ResultInit(longBytes)
    /\ i' = LoopStart
    /\ kernelCalls' = kernelCalls + 1
    /\ mults' = 0
    /\ pc' = "loop"
    /\ UNCHANGED <<build, args, n, py_result, err, retval, parses, wrapped,
                   memo>>

\* Iterations that are taken as one step: while result is 0 and i < n, an
\* iteration leaves result at 0 (0 * i = 0, no overflow) and adds 1 to i
\* (i < n <= INT_MAX, no overflow).
CanRun == result = Zero /\ i < n

\* Lines 6-8, one iteration: i <= n holds, result *= i, i++.
LoopBody ==
    /\ pc = "loop"
    /\ LoopCond(i, n)
    /\ ~CanRun
    /\ LET m == Multiply(result, i)
       IN  IF m.overflow /\ overflowBuild = "traps"
           THEN /\ pc' = "aborted"
                /\ UNCHANGED <<result, i, mults, wrapped>>
           ELSE /\ result' = m.value
                /\ wrapped' = (wrapped \/ m.overflow)
                /\ mults' = AddSat(mults, 1)
                /\ IF i < INT_MAX
                   THEN i' = i + 1 /\ pc' = "loop"
                   ELSE \* i++ overflows
                        CASE overflowBuild = "wraps" ->
                                i' = INT_MIN /\ pc' = "loop"
                          [] overflowBuild = "traps" ->
                                i' = i /\ pc' = "aborted"
                          [] overflowBuild = "assumed" ->
                                i' = INT_MIN /\ pc' = "return"
    /\ UNCHANGED <<build, args, n, py_result, err, retval, kernelCalls,
                   parses, memo>>

\* Lines 6-8, the n - i iterations from a state with result = 0 and i < n.
LoopRun ==
    /\ pc = "loop"
    /\ CanRun
    /\ i' = n
    /\ mults' = IF i < 0 THEN INT_MAX ELSE AddSat(mults, n - i)
    /\ UNCHANGED <<build, pc, args, n, result, py_result, err, retval,
                   kernelCalls, parses, wrapped, memo>>

\* Line 6, i <= n is false, and line 9 with the assignment of line 20:
\* the kernel returns result to py_factorial, and its locals are gone.
KernelReturn ==
    /\ \/ pc = "loop" /\ ~LoopCond(i, n)
       \/ pc = "return"
    /\ py_result' = result
    /\ result' = Zero
    /\ i' = 0
    /\ pc' = "convert"
    /\ UNCHANGED <<build, args, n, err, retval, history, memo>>

\* Line 22: return PyLong_FromLong(result), and result is gone.
Convert ==
    /\ pc = "convert"
    /\ retval' = PyLong_FromLong(py_result)
    /\ py_result' = Zero
    /\ pc' = "idle"
    /\ UNCHANGED <<build, args, n, i, result, err, history, memo>>

\* The code of one call, from entry to return.
Run ==
    \/ Parse
    \/ ReturnNull
    \/ KernelEnter
    \/ LoopBody
    \/ LoopRun
    \/ KernelReturn
    \/ Convert

Next ==
    \/ \E a \in AllArgs : HostCall(a)
    \/ Parse
    \/ ReturnNull
    \/ KernelEnter
    \/ LoopBody
    \/ LoopRun
    \/ KernelReturn
    \/ Convert

Spec == Init /\ [][Next]_vars

\* A call that has been entered runs: the code is sequential and is never
\* suspended.  Whether the interpreter calls again is up to the interpreter.
FairSpec == Spec /\ WF_vars(Run)

\* The interpreter remembers the arguments and the outcome of the call that
\* has just returned, once.
Observe ==
    /\ pc = "idle"
    /\ retval # NoValue
    /\ ~memo.set
    /\ memo' = [set |-> TRUE, args |-> args, retval |-> retval, err |-> err,
                otherBetween |-> FALSE, failedBetween |-> FALSE]
    /\ UNCHANGED <<build, pc, args, locals, err, retval, history>>

\* The calls made while an observation is compared with later outcomes.
MemoArgs ==
    {<<PyIntOfInt(k)>> : k \in {0, 5, 13, PastZero}} \cup {<<PyStr>>, <<>>}

MemoNext ==
    \/ \E a \in MemoArgs : HostCall(a)
    \/ Observe
    \/ Parse
    \/ ReturnNull
    \/ KernelEnter
    \/ LoopBody
    \/ LoopRun
    \/ KernelReturn
    \/ Convert

MemoSpec == Init /\ [][MemoNext]_vars

\* ------------------------------------------------------------------------
\* Reference values for the properties
\* ------------------------------------------------------------------------

\* 0!, 1!, ..., 12! as written in the specification.
FactTable ==
    <<1, 1, 2, 6, 24, 120, 720, 5040, 40320, 362880, 3628800, 39916800,
      479001600>>

RECURSIVE ExactFact(_)
\* k! as an exact magnitude, of whatever length it needs, three factors at
\* a time (which keeps the recursion shallow), for k up to a few hundred.
ExactFact(k) ==
    IF k <= 1 THEN <<1>>
    ELSE IF k = 2 THEN <<2>>
    ELSE IF k = 3 THEN <<6>>
    ELSE MagMulSmall(ExactFact(k - 3), k * (k - 1) * (k - 2), 0)

\* The exact k! reduced modulo 2^(8 * nb): its nb low bytes.
WrappedFact(k, nb) ==
    LET f == ExactFact(k)
    IN  IF Len(f) >= nb THEN SubSeq(f, 1, nb) ELSE f \o Fill(0, nb - Len(f))

\* k! is not representable in a signed long of nb bytes.
FactOverflows(k, nb) == ~MagLess(ExactFact(k), Pow2Mag(8 * nb - 1))

IntArg(k) == <<PyIntOfInt(k)>>

Returned == pc = "idle" /\ retval # NoValue

\* The kernel has been entered and has not returned to py_factorial.
Computing == pc \in {"call", "loop", "return", "convert"}

\* ------------------------------------------------------------------------
\* C1
\* ------------------------------------------------------------------------

C1Args == {IntArg(k) : k \in 0 .. 12}

C1Safe ==
    \A k \in 0 .. 12 :
        args = IntArg(k) =>
            /\ pc \notin {"fail", "aborted"}
            /\ err = "none"
            /\ ~wrapped
            /\ pc = "loop" =>
                  /\ i <= 13
                  /\ result = Bytes(FactTable[i], longBytes)
            /\ pc = "idle" => retval = PyIntOfInt(FactTable[k + 1])

C1Live == (pc = "parse" /\ args \in C1Args) ~> (pc = "idle")

\* C1: a call factorial(n) with 0 <= n <= 12 ends in success, the value
\* returned is the exact n! of the table 1, 1, 2, 6, ..., 479001600, and at
\* every loop iteration the accumulator holds the exact (i - 1)!, no
\* multiplication having overflowed.
C1_ExactUpTo12 == []C1Safe /\ C1Live

\* 12! returned where long is 32 bits, after 11 multiplications.
C1_Witness ==
    /\ pc = "idle"
    /\ args = IntArg(12)
    /\ longBytes = 4
    /\ retval = PyInt(FALSE, <<0, 252, 140, 28>>)
    /\ mults = 11

\* ------------------------------------------------------------------------
\* C2
\* ------------------------------------------------------------------------

C2Args == {IntArg(k) : k \in {INT_MIN, -1, 0, 1}}

C2Safe ==
    args \in C2Args =>
        /\ pc \notin {"fail", "aborted"}
        /\ err = "none"
        /\ mults = 0
        /\ pc = "loop" => result = Bytes(1, longBytes) /\ i = 2 /\ n <= 1
        /\ pc = "convert" => py_result = Bytes(1, longBytes)
        /\ pc = "idle" => retval = PyInt(FALSE, <<1>>)

C2Live == (pc = "parse" /\ args \in C2Args) ~> (pc = "idle")

\* C2: for n <= 1 (0, 1 and the negative n, down to INT_MIN) the kernel
\* performs no multiplication and returns 1, and the call ends in success
\* with the Python int 1, never in failure.
C2_EmptyProduct == []C2Safe /\ C2Live

\* factorial(INT_MIN) has returned 1.
C2_Witness ==
    /\ pc = "idle"
    /\ args = IntArg(INT_MIN)
    /\ n = INT_MIN
    /\ kernelCalls = 1
    /\ retval = PyInt(FALSE, <<1>>)

\* ------------------------------------------------------------------------
\* C3
\* ------------------------------------------------------------------------

C3Safe ==
    Len(args) # 1 =>
        /\ kernelCalls = 0
        /\ pc \in {"idle", "parse", "fail"}
        /\ pc = "fail" => err = "TypeError"
        /\ Returned => retval = NULL /\ err = "TypeError"

C3Live == (pc = "parse" /\ Len(args) # 1) ~> (pc = "idle")

\* C3: a call whose argument tuple has no element or more than one ends in
\* failure (NULL returned, TypeError set) and c_factorial is not entered
\* during it.
C3_ArityError == []C3Safe /\ C3Live

\* factorial(3, 4) has failed.
C3_Witness ==
    /\ Returned
    /\ Len(args) = 2
    /\ retval = NULL
    /\ err = "TypeError"
    /\ parses = 1

\* ------------------------------------------------------------------------
\* C4
\* ------------------------------------------------------------------------

C4Safe ==
    args \in WrongTypeArgs \cup OutOfRangeArgs =>
        /\ kernelCalls = 0
        /\ pc \in {"idle", "parse", "fail"}
        /\ pc \in {"idle", "fail"} =>
              err = IF args \in WrongTypeArgs THEN "TypeError"
                    ELSE "OverflowError"
        /\ pc = "idle" => retval = NULL

C4Live ==
    (pc = "parse" /\ args \in WrongTypeArgs \cup OutOfRangeArgs)
        ~> (pc = "idle")

\* C4: a call with one argument that is not an int (a str, a float), or
\* that is an int outside INT_MIN..INT_MAX, ends in failure (NULL returned,
\* TypeError or OverflowError set) and c_factorial is not entered: no
\* out-of-range int is truncated and passed on.
C4_ConversionError == []C4Safe /\ C4Live

\* factorial(2**32 + 5) has failed where long is 64 bits (the value fits a
\* long, and its low 32 bits are 5).
C4_Witness ==
    /\ pc = "idle"
    /\ args = <<TwoTo32Plus5>>
    /\ longBytes = 8
    /\ retval = NULL
    /\ err = "OverflowError"

\* ------------------------------------------------------------------------
\* C5
\* ------------------------------------------------------------------------

\* C5: a call returns what the remembered call with the same arguments
\* returned (value and error indicator), whatever calls, failed ones
\* included, ran in between.
C5_SameArgsSameOutcome ==
    (memo.set /\ Returned /\ args = memo.args) =>
        retval = memo.retval /\ err = memo.err

\* factorial(13) has returned the remembered value a second time, after
\* another call and a failed call.
C5_Witness ==
    /\ memo.set
    /\ Returned
    /\ args = memo.args
    /\ args = IntArg(13)
    /\ memo.otherBetween
    /\ memo.failedBetween
    /\ retval.type = "int"
    /\ retval = memo.retval

\* ------------------------------------------------------------------------
\* C9
\* ------------------------------------------------------------------------

C9Safe ==
    /\ pc = "fail" => err # "none"
    /\ Returned =>
          /\ retval.type \in {"NULL", "int"}
          /\ (retval = NULL) <=> (err # "none")
          /\ (retval = NULL) <=> (args \notin IntArgs)
          /\ retval = NULL => kernelCalls = 0
    /\ Computing => err = "none"

C9Step ==
    /\ Computing => err' = err
    /\ pc = "fail" => err' = err /\ retval' = NULL

\* C9: when parsing fails the error indicator is set before NULL is
\* returned; NULL is returned exactly when the error indicator is set,
\* which is exactly when the arguments are not one int within range; a
\* successful result is a Python int, never NULL; and from the successful
\* parse on no step changes the error indicator.
C9_SentinelAgreesWithError == []C9Safe /\ [][C9Step]_vars

\* A failed call: NULL returned with OverflowError set.
C9_Witness ==
    /\ Returned
    /\ retval = NULL
    /\ err = "OverflowError"
    /\ kernelCalls = 0

\* ------------------------------------------------------------------------
\* C6
\* ------------------------------------------------------------------------

\* The int arguments whose exact factorial is beyond the range of long
\* (the exact value is computed for the arguments up to PastZero).
Overflowing(k) == k > PastZero \/ FactOverflows(k, longBytes)

\* k! modulo 2^(8 * longBytes); k! is a multiple of 2^64 from 66! on.
WrappedRef(k) ==
    IF k > PastZero THEN Zero ELSE WrappedFact(k, longBytes)

C6Call ==
    \E k \in SmallInts \cup {PastZero, INT_MAX} :
        args = IntArg(k) /\ Overflowing(k)

C6Safe ==
    \A k \in SmallInts \cup {PastZero, INT_MAX} :
        (args = IntArg(k) /\ Overflowing(k)) =>
            /\ pc # "fail"
            /\ err = "none"
            /\ pc = "idle" => retval = PyLong_FromLong(WrappedRef(k))

C6Live ==
    (pc = "parse" /\ C6Call /\ overflowBuild # "traps") ~> (pc = "idle")

\* C6: a call with an int n accepted by the parse step whose exact n! is
\* beyond the range of long ends in success with n! reduced modulo 2^w
\* into the signed range; the error indicator is never set and NULL is
\* never returned.  (The ending is asked of the builds in which an
\* overflowing multiplication yields a value at all.)
C6_OverflowWraps == []C6Safe /\ C6Live

\* ------------------------------------------------------------------------
\* C7
\* ------------------------------------------------------------------------

\* C7: for every n the loop of c_factorial terminates and the function
\* returns, n = INT_MAX included.  (Asked of the builds in which an
\* overflowing multiplication yields a value at all.)
C7_KernelTotal ==
    (pc = "loop" /\ overflowBuild # "traps") ~> (pc = "convert")

\* ------------------------------------------------------------------------
\* C8
\* ------------------------------------------------------------------------

C8Safe ==
    /\ parses <= 1
    /\ kernelCalls <= 1
    /\ pc = "parse" => parses = 0 /\ kernelCalls = 0
    /\ pc = "fail" => parses = 1 /\ kernelCalls = 0 /\ args \notin IntArgs
    /\ Computing => parses = 1 /\ args \in IntArgs /\ err = "none"
    /\ Returned =>
          /\ parses = 1
          /\ \/ retval = NULL /\ args \notin IntArgs /\ kernelCalls = 0
             \/ retval.type = "int" /\ args \in IntArgs /\ kernelCalls = 1

C8Step ==
    /\ pc = "idle" => pc' = "parse"
    /\ pc = "parse" => pc' \in {"call", "fail"}
    /\ pc = "fail" => pc' = "idle"
    /\ Computing => pc' # "parse" /\ pc' # "fail"

C8Live == (pc = "parse" /\ overflowBuild # "traps") ~> (pc = "idle")

\* C8: every call starts in the parse step; the kernel is entered only
\* after a successful parse, once, and not at all after a failed one; a
\* failed parse is not retried; and every call reaches its one outcome, a
\* Python int or NULL.  (The ending is asked of the builds in which an
\* overflowing multiplication yields a value at all.)
C8_CallStateMachine == []C8Safe /\ [][C8Step]_vars /\ C8Live

\* ------------------------------------------------------------------------
\* C10
\* ------------------------------------------------------------------------

\* C10: in c_factorial called with n >= 2, at every evaluation of the loop
\* condition 2 <= i <= n + 1, i - 2 multiplications have been done and
\* result is (i - 1)! reduced modulo 2^w; at the return n - 1
\* multiplications have been done and the value is n! reduced modulo 2^w.
C10_LoopInvariant ==
    n >= 2 =>
        /\ pc = "loop" =>
              /\ 2 <= i
              /\ i - 1 <= n
              /\ mults = i - 2
              /\ result = WrappedRef(i - 1)
        /\ pc = "convert" =>
              /\ mults = n - 1
              /\ py_result = WrappedRef(n)

====
